---- MODULE Spec2Model ----
(***************************************************************************)
(* Model of the ROT13 transcoder (src/src/rot13.rs) and of the challenge   *)
(* evaluation pipeline of main (src/src/main.rs).                          *)
(*                                                                         *)
(* Bytes are the integers 0..255.  A std::io::Result is a record           *)
(* [ok, n, err]: Ok(n) is [ok |-> TRUE, n |-> n, err |-> "none"] and       *)
(* Err(e) is [ok |-> FALSE, n |-> 0, err |-> e].                           *)
(*                                                                         *)
(* Three specifications share the variables:                               *)
(*   SpecChar  calls of the rotation primitive rot13_character,            *)
(*   Spec      one Rot13Writer over a sink (Vec<u8> or any other Write),   *)
(*   SpecMain  the evaluation pipeline of main, run twice.                 *)
(***************************************************************************)
EXTENDS Integers, Sequences, FiniteSets

VARIABLES
    \* ---- rot13_character called directly (as the unit tests do)
    character,                \* argument `character`
    lower_bound_inclusive,    \* argument `lower_bound_inclusive`
    rotated,                  \* <<the returned byte>>, <<>> before the call
    \* ---- one Rot13Writer<T>
    sinkKind,                 \* what T is: "Vec" (Vec<u8>) or "Generic" (any Write)
    inner,                    \* the bytes the wrapped sink has accepted
    calls,                    \* the calls the last writer call made on the sink
    last,                     \* the last call on the writer and what it returned
    twice,                    \* the sink of a second writer fed with `inner`
    \* ---- main
    pc,
    instructions,
    decoded_string,
    current_time,
    most_recent_30_seconds,
    secret,
    steps,                    \* the pipeline steps of this evaluation, in order
    earlier                   \* the record of the evaluation before this one

charVars   == <<character, lower_bound_inclusive, rotated>>
writerVars == <<sinkKind, inner, calls, last, twice>>
mainVars   == <<pc, instructions, decoded_string, current_time,
                most_recent_30_seconds, secret, steps, earlier>>
vars       == <<charVars, writerVars, mainVars>>

(***************************************************************************)
(* Program constants.                                                      *)
(***************************************************************************)
LOWER_BEGIN_U8 == 97
LOWER_END_U8 == 122
UPPER_BEGIN_U8 == 65
UPPER_END_U8 == 90
ChunkSize == 8
AlphabetSize == 26
Rotation == 13
Quantum == 30

Byte == 0..255
None == <<-1>>

Ok(n)  == [ok |-> TRUE, n |-> n, err |-> "none"]
Err(e) == [ok |-> FALSE, n |-> 0, err |-> e]

(***************************************************************************)
(* rot13_character: the inclusive range test of the code is                *)
(* lower_bound_inclusive ..= lower_bound_inclusive + 26.                   *)
(***************************************************************************)
rot13_character_rot12(c, lb) ==
    IF ~(c >= lb /\ c <= lb + AlphabetSize)
    THEN c
    ELSE (((c - lb) + (Rotation - 1)) % AlphabetSize) + lb

rot13_character(c, lb) ==
    IF ~(c >= lb /\ c <= lb + AlphabetSize)
    THEN c
    ELSE LET adjusted_bound_character == c - lb
             rotated_character == (adjusted_bound_character + Rotation) % AlphabetSize
         IN  rotated_character + lb

(***************************************************************************)
(* Rot13Writer::write, the per-byte dispatch of the match expression.      *)
(***************************************************************************)
TransformByte(c) ==
    IF c >= LOWER_BEGIN_U8 /\ c <= LOWER_END_U8
    THEN rot13_character(c, LOWER_BEGIN_U8)
    ELSE IF c >= UPPER_BEGIN_U8 /\ c <= UPPER_END_U8
         THEN rot13_character(c, UPPER_BEGIN_U8)
         ELSE c

\* buf.chunks(8): consecutive slices of ChunkSize bytes, the last one shorter.
RECURSIVE Chunks(_)
Chunks(buf) ==
    IF buf = <<>> THEN <<>>
    ELSE IF Len(buf) <= ChunkSize THEN <<buf>>
    ELSE <<SubSeq(buf, 1, ChunkSize)>> \o Chunks(SubSeq(buf, ChunkSize + 1, Len(buf)))

\* let mut transform_buf: [u8; 8] = [0; 8];
EmptyTransformBuf == [i \in 1..ChunkSize |-> 0]

\* The inner for loop: transform_buf[idx] is overwritten for idx < chunk.len()
\* and keeps its old content elsewhere.
FillTransformBuf(transform_buf, chunk) ==
    [i \in 1..ChunkSize |->
        IF i <= Len(chunk) THEN TransformByte(chunk[i]) ELSE transform_buf[i]]

\* &transform_buf[..chunk.len()], the slice offered to the sink.
BatchWhole(transform_buf, chunk) == transform_buf

Batch(transform_buf, chunk) == SubSeq(transform_buf, 1, Len(chunk))

(***************************************************************************)
(* The wrapped sink T.  A Vec<u8> accepts every byte and never fails; any  *)
(* other Write may accept any prefix of what it is offered, or fail.       *)
(***************************************************************************)
IoErrors == {"BrokenPipe", "StorageFull"}

SinkWrite(kind, batch) ==
    IF kind = "Vec"
    THEN {Ok(Len(batch))}
    ELSE {Ok(k) : k \in 0..Len(batch)} \cup {Err(e) : e \in IoErrors}

SinkFlush(kind) ==
    IF kind = "Vec" THEN {Ok(0)} ELSE {Ok(0)} \cup {Err(e) : e \in IoErrors}

SinkCall(op, batch, resp) == [op |-> op, batch |-> batch, resp |-> resp]

\* The bytes the sink took in a list of calls.
RECURSIVE Accepted(_)
Accepted(cs) ==
    IF cs = <<>> THEN <<>>
    ELSE (IF Head(cs).resp.ok THEN SubSeq(Head(cs).batch, 1, Head(cs).resp.n) ELSE <<>>)
         \o Accepted(Tail(cs))

(***************************************************************************)
(* The for loop of Rot13Writer::write: every outcome [ret, calls] the loop *)
(* can have over the remaining chunks, one per choice of sink responses.   *)
(* `?' returns the sink's error at once.                                   *)
(***************************************************************************)
RECURSIVE WriteChunksIgnoringErrors(_, _, _, _, _)
WriteChunksIgnoringErrors(kind, chunks, transform_buf, total_bytes_written, cs) ==
    IF chunks = <<>>
    THEN {[ret |-> Ok(total_bytes_written), calls |-> cs]}
    ELSE LET chunk == Head(chunks)
             tb    == FillTransformBuf(transform_buf, chunk)
             batch == Batch(tb, chunk)
         IN  UNION { WriteChunksIgnoringErrors(kind, Tail(chunks), tb,
                                    total_bytes_written + r.n,
                                    Append(cs, SinkCall("write", batch, r)))
                     : r \in SinkWrite(kind, batch) }

RECURSIVE WriteChunks(_, _, _, _, _)
WriteChunks(kind, chunks, transform_buf, total_bytes_written, cs) ==
    IF chunks = <<>>
    THEN {[ret |-> Ok(total_bytes_written), calls |-> cs]}
    ELSE LET chunk == Head(chunks)
             tb    == FillTransformBuf(transform_buf, chunk)
             batch == Batch(tb, chunk)
         IN  UNION { IF r.ok
                     THEN WriteChunks(kind, Tail(chunks), tb,
                                      total_bytes_written + r.n,
                                      Append(cs, SinkCall("write", batch, r)))
                     ELSE {[ret |-> r, calls |-> Append(cs, SinkCall("write", batch, r))]}
                     : r \in SinkWrite(kind, batch) }

\* Rot13Writer::write without the early return, looping at least once.
Rot13Writer_write_no_early_return(kind, buf) ==
    WriteChunks(kind, IF buf = <<>> THEN <<buf>> ELSE Chunks(buf),
                EmptyTransformBuf, 0, <<>>)

Rot13Writer_write(kind, buf) ==
    IF buf = <<>>
    THEN {[ret |-> Ok(0), calls |-> <<>>]}
    ELSE WriteChunks(kind, Chunks(buf), EmptyTransformBuf, 0, <<>>)

\* Rot13Writer::flush: self.inner.flush()
Rot13Writer_flush(kind) ==
    {[ret |-> r, calls |-> <<SinkCall("flush", <<>>, r)>>] : r \in SinkFlush(kind)}

(***************************************************************************)
(* Bounds and inputs.                                                      *)
(***************************************************************************)
MaxLen == 17

\* Letters at both ends and in the middle of each alphabet, and the bytes
\* next to the alphabets: a z m n A Z M N ` { @ [ space 0 9 # ! ( ) NUL 0x80 0xFF
Pattern == <<97, 122, 109, 110, 65, 90, 77, 78, 96, 123, 64, 91,
             32, 48, 57, 35, 33, 40, 41, 0, 128, 255, 98, 89>>

Window(start, len) ==
    [i \in 1..len |-> Pattern[((start + i - 2) % Len(Pattern)) + 1]]

Inputs ==
    {Window(s, n) : s \in 1..Len(Pattern), n \in 0..MaxLen} \cup {<<c>> : c \in Byte}

(***************************************************************************)
(* main: the pieces of the evaluation pipeline.                            *)
(***************************************************************************)
\* Write::write_all over Rot13Writer::write: call write on what is left of
\* buf until nothing is left; Ok(0) is the error WriteZero.
RECURSIVE write_all(_, _, _)
write_all(kind, buf, cs) ==
    IF buf = <<>>
    THEN {[ret |-> Ok(0), calls |-> cs]}
    ELSE UNION { IF ~o.ret.ok
                 THEN {[ret |-> o.ret, calls |-> cs \o o.calls]}
                 ELSE IF o.ret.n = 0
                      THEN {[ret |-> Err("WriteZero"), calls |-> cs \o o.calls]}
                      ELSE write_all(kind, SubSeq(buf, o.ret.n + 1, Len(buf)),
                                     cs \o o.calls)
                 : o \in Rot13Writer_write(kind, buf) }

\* The % of Rust on i64 truncates towards zero: the remainder has the sign
\* of the dividend.
RustRem(a, b) == IF a >= 0 THEN a % b ELSE -((-a) % b)

\* current_time - (current_time % 30)
MostRecent30SecondsWide(t) == t - RustRem(t, Quantum + Quantum)

MostRecent30SecondsRaw(t) == t

MostRecent30SecondsUp(t) == t - RustRem(t, Quantum) + Quantum

MostRecent30Seconds(t) == t - RustRem(t, Quantum)

\* write!(decoded_string, "{}", n): Display of an i64, decimal ASCII digits,
\* with a leading '-' for a negative value.
RECURSIVE Digits(_)
Digits(n) ==
    IF n < 10 THEN <<48 + n>> ELSE Digits(n \div 10) \o <<48 + (n % 10)>>

DecimalString(n) == IF n < 0 THEN <<45>> \o Digits(-n) ELSE Digits(n)

\* blake3::hash is a library function; all the model keeps of it is that it
\* is a deterministic function of the bytes with a digest of bounded width,
\* so that two different buffers may collide.
RECURSIVE blake3_hash(_)
blake3_hash(bytes) ==
    IF bytes = <<>> THEN 7
    ELSE (blake3_hash(SubSeq(bytes, 1, Len(bytes) - 1)) * 31
          + bytes[Len(bytes)] + 1) % 65536

MaxInstrLen == 9
MaxBefore == 31
MaxTime == 65

\* instructions.instructions.as_bytes(): the bytes of a String.
InstructionInputs == {Window(1, n) : n \in 0..MaxInstrLen}

\* Utc::now().timestamp(), seconds since the epoch as an i64.
Times == (-MaxBefore)..MaxTime

NoRun == [instructions |-> <<>>, current_time |-> 0, time_window |-> 0,
          hashed |-> <<>>, secret |-> 0, done |-> FALSE]

(***************************************************************************)
(* Initial states.                                                         *)
(***************************************************************************)
NewCall == [op |-> "new", buf |-> <<>>, before |-> <<>>, ret |-> Ok(0)]

CharIdle ==
    /\ character = 0
    /\ lower_bound_inclusive = LOWER_BEGIN_U8
    /\ rotated = <<>>

WriterIdle ==
    /\ sinkKind = "Vec"
    /\ inner = <<>>
    /\ calls = <<>>
    /\ last = NewCall
    /\ twice = None

MainIdle ==
    /\ pc = "idle"
    /\ instructions = <<>>
    /\ decoded_string = <<>>
    /\ current_time = 0
    /\ most_recent_30_seconds = 0
    /\ secret = 0
    /\ steps = <<>>
    /\ earlier = NoRun

\* rot13_character is about to be called with one of the two lower bounds
\* the crate passes to it.
InitChar ==
    /\ character \in Byte
    /\ lower_bound_inclusive \in {LOWER_BEGIN_U8, UPPER_BEGIN_U8}
    /\ rotated = <<>>
    /\ WriterIdle
    /\ MainIdle

\* Rot13Writer::new(inner) over an empty sink.
Init ==
    /\ sinkKind \in {"Vec", "Generic"}
    /\ inner = <<>>
    /\ calls = <<>>
    /\ last = NewCall
    /\ twice = None
    /\ CharIdle
    /\ MainIdle

\* main has received the instructions and built
\* Rot13Writer::new(Vec::<u8>::new()).
InitMain ==
    /\ pc = "write_all"
    /\ instructions \in InstructionInputs
    /\ decoded_string = <<>>
    /\ current_time = 0
    /\ most_recent_30_seconds = 0
    /\ secret = 0
    /\ steps = <<>>
    /\ earlier = NoRun
    /\ WriterIdle
    /\ CharIdle

(***************************************************************************)
(* Actions of SpecChar.                                                    *)
(***************************************************************************)
CallRot13Character ==
    /\ rotated = <<>>
    /\ rotated' = <<rot13_character(character, lower_bound_inclusive)>>
    /\ UNCHANGED <<character, lower_bound_inclusive, writerVars, mainVars>>

(***************************************************************************)
(* Actions of Spec: calls on one Rot13Writer.  A writer takes its data in  *)
(* one write, as main and the tests do; an empty write and a flush may     *)
(* follow at any time.                                                     *)
(***************************************************************************)
Write(buf) ==
    /\ buf = <<>> \/ last.op = "new"
    /\ \E o \in Rot13Writer_write(sinkKind, buf) :
          /\ inner' = inner \o Accepted(o.calls)
          /\ calls' = o.calls
          /\ last' = [op |-> "write", buf |-> buf, before |-> inner, ret |-> o.ret]
    /\ UNCHANGED <<sinkKind, twice, charVars, mainVars>>

WriteData == \E buf \in Inputs \ {<<>>} : Write(buf)

WriteEmpty == Write(<<>>)

Flush ==
    /\ \E o \in Rot13Writer_flush(sinkKind) :
          /\ calls' = o.calls
          /\ last' = [op |-> "flush", buf |-> <<>>, before |-> inner, ret |-> o.ret]
    /\ UNCHANGED <<sinkKind, inner, twice, charVars, mainVars>>

\* What the sink holds after the writer's one write is written through a
\* second Rot13Writer over an empty Vec<u8>.
Retranscode ==
    /\ last.op = "write"
    /\ last.before = <<>>
    /\ twice = None
    /\ \E o \in Rot13Writer_write("Vec", inner) : twice' = Accepted(o.calls)
    /\ UNCHANGED <<sinkKind, inner, calls, last, charVars, mainVars>>

(***************************************************************************)
(* Actions of SpecMain.                                                    *)
(***************************************************************************)
MainWriteAll ==
    /\ pc = "write_all"
    /\ \E o \in write_all(sinkKind, instructions, <<>>) :
          /\ inner' = inner \o Accepted(o.calls)
          /\ calls' = o.calls
          /\ last' = [op |-> "write_all", buf |-> instructions, before |-> inner,
                      ret |-> o.ret]
          /\ pc' = IF o.ret.ok THEN "flush" ELSE "panicked"
    /\ steps' = Append(steps, "write_all")
    /\ UNCHANGED <<sinkKind, twice, charVars, instructions, decoded_string,
                   current_time, most_recent_30_seconds, secret, earlier>>

MainFlush ==
    /\ pc = "flush"
    /\ \E o \in Rot13Writer_flush(sinkKind) :
          /\ calls' = o.calls
          /\ last' = [op |-> "flush", buf |-> <<>>, before |-> inner, ret |-> o.ret]
          /\ pc' = IF o.ret.ok THEN "extract" ELSE "panicked"
    /\ steps' = Append(steps, "flush")
    /\ UNCHANGED <<sinkKind, inner, twice, charVars, instructions, decoded_string,
                   current_time, most_recent_30_seconds, secret, earlier>>

\* let mut decoded_string = writer.inner;
MainExtract ==
    /\ pc = "extract"
    /\ decoded_string' = inner
    /\ pc' = "clock"
    /\ steps' = Append(steps, "extract")
    /\ UNCHANGED <<writerVars, charVars, instructions, current_time,
                   most_recent_30_seconds, secret, earlier>>

MainReadClock ==
    /\ pc = "clock"
    /\ \E t \in Times :
          /\ current_time' = t
          /\ most_recent_30_seconds' = MostRecent30Seconds(t)
    /\ pc' = "append"
    /\ steps' = Append(steps, "clock")
    /\ UNCHANGED <<writerVars, charVars, instructions, decoded_string, secret, earlier>>

AppendTimestampFirst(buffer, n) == DecimalString(n) \o buffer

AppendTimestamp(buffer, n) == buffer \o DecimalString(n)

MainAppend ==
    /\ pc = "append"
    /\ decoded_string' = AppendTimestamp(decoded_string, most_recent_30_seconds)
    /\ pc' = "hash"
    /\ steps' = Append(steps, "append")
    /\ UNCHANGED <<writerVars, charVars, instructions, current_time,
                   most_recent_30_seconds, secret, earlier>>

MainHash ==
    /\ pc = "hash"
    /\ secret' = blake3_hash(decoded_string)
    /\ pc' = "done"
    /\ steps' = Append(steps, "hash")
    /\ UNCHANGED <<writerVars, charVars, instructions, decoded_string, current_time,
                   most_recent_30_seconds, earlier>>

ThisRun == [instructions |-> instructions, current_time |-> current_time,
            time_window |-> most_recent_30_seconds, hashed |-> decoded_string,
            secret |-> secret, done |-> TRUE]

\* The program is run once more and is given the same instructions.
MainRunAgain ==
    /\ pc = "done"
    /\ ~earlier.done
    /\ earlier' = ThisRun
    /\ pc' = "write_all"
    /\ decoded_string' = <<>>
    /\ current_time' = 0
    /\ most_recent_30_seconds' = 0
    /\ secret' = 0
    /\ steps' = <<>>
    /\ sinkKind' = "Vec"
    /\ inner' = <<>>
    /\ calls' = <<>>
    /\ last' = NewCall
    /\ UNCHANGED <<twice, charVars, instructions>>

(***************************************************************************)
(* Specifications.                                                         *)
(***************************************************************************)
NextChar == CallRot13Character

Next ==
    \/ WriteData
    \/ WriteEmpty
    \/ Flush
    \/ Retranscode

NextMain ==
    \/ MainWriteAll
    \/ MainFlush
    \/ MainExtract
    \/ MainReadClock
    \/ MainAppend
    \/ MainHash
    \/ MainRunAgain

SpecChar == InitChar /\ [][NextChar]_vars

Spec == Init /\ [][Next]_vars

SpecMain == InitMain /\ [][NextMain]_vars

(***************************************************************************)
(* The claims.  What a claim expects is written independently of the       *)
(* definitions above that model the code.                                  *)
(***************************************************************************)
\* ROT13 of one byte as the contract states it: a letter moves 13 places
\* within its own alphabet, any other byte stays.
Rot13Of(c) ==
    IF (c >= 97 /\ c <= 109) \/ (c >= 65 /\ c <= 77) THEN c + 13
    ELSE IF (c >= 110 /\ c <= 122) \/ (c >= 78 /\ c <= 90) THEN c - 13
    ELSE c

Rot13OfSeq(bytes) == [i \in 1..Len(bytes) |-> Rot13Of(bytes[i])]

IsLower(c) == c >= 97 /\ c <= 122
IsUpper(c) == c >= 65 /\ c <= 90

\* The sink took every byte of every batch it was offered.
AllAccepted(cs) ==
    \A i \in 1..Len(cs) : cs[i].resp.ok /\ cs[i].resp.n = Len(cs[i].batch)

\* C1: when the sink accepts every byte offered, a write of any length
\* leaves in the sink a sequence of the same length as the input whose
\* byte i is the ROT13 of input byte i (letters rotated within their own
\* alphabet, other bytes unchanged), with nothing left over from an
\* earlier batch in a later, shorter one.
C1_WriteTransformsEveryByte ==
    (last.op = "write" /\ AllAccepted(calls)) =>
        /\ Len(Accepted(calls)) = Len(last.buf)
        /\ Accepted(calls) = Rot13OfSeq(last.buf)
        /\ inner = last.before \o Rot13OfSeq(last.buf)

C1_Witness ==
    /\ last.op = "write"
    /\ sinkKind = "Generic"
    /\ AllAccepted(calls)
    /\ Len(last.buf) > 2 * ChunkSize
    /\ Len(last.buf) % ChunkSize # 0
    /\ \E i \in 1..Len(last.buf) : IsLower(last.buf[i])
    /\ \E i \in 1..Len(last.buf) : IsUpper(last.buf[i])
    /\ \E i \in 1..Len(last.buf) : ~IsLower(last.buf[i]) /\ ~IsUpper(last.buf[i])

\* C2: writing b through a Rot13Writer and the result through a second
\* Rot13Writer, both over sinks that accept every byte, gives b back.
C2_TwiceIsIdentity ==
    (twice # None /\ last.op = "write" /\ last.before = <<>> /\ AllAccepted(calls)) =>
        twice = last.buf

C2_Witness ==
    /\ twice # None
    /\ last.op = "write"
    /\ last.before = <<>>
    /\ AllAccepted(calls)
    /\ Len(last.buf) > ChunkSize
    /\ inner # last.buf
    /\ twice = last.buf

\* C7 (as claimed): for every sink, also one that accepts fewer bytes than
\* it is offered, when write returns Ok(n) the bytes the sink accepted
\* during the call are exactly the transformed first n bytes of the input.
C7_AcceptedIsPrefix ==
    (last.op = "write" /\ last.ret.ok) =>
        /\ last.ret.n <= Len(last.buf)
        /\ Accepted(calls) = Rot13OfSeq(SubSeq(last.buf, 1, last.ret.n))
        /\ inner = last.before \o Rot13OfSeq(SubSeq(last.buf, 1, last.ret.n))

\* C8: when the sink's write fails on a batch, write returns that very
\* error, the failed batch was offered once and is the last batch offered
\* (batch i offered is the transformed chunk i of the input, so no batch is
\* retried and none follows the failure); a failure of the sink's flush is
\* what flush returns.
C8_SinkErrorPropagates ==
    /\ last.op = "write" =>
          /\ Len(calls) <= Len(Chunks(last.buf))
          /\ \A i \in 1..Len(calls) :
                /\ calls[i].op = "write"
                /\ calls[i].batch = Rot13OfSeq(Chunks(last.buf)[i])
                /\ ~calls[i].resp.ok => (i = Len(calls) /\ last.ret = calls[i].resp)
          /\ last.ret.ok => \A i \in 1..Len(calls) : calls[i].resp.ok
    /\ last.op = "flush" =>
          /\ Len(calls) = 1
          /\ calls[1].op = "flush"
          /\ last.ret = calls[1].resp

C8_Witness ==
    /\ last.op = "write"
    /\ Len(Chunks(last.buf)) = 3
    /\ Len(calls) = 2
    /\ calls[1].resp.ok
    /\ last.ret = Err("StorageFull")

\* C9: a write of the empty byte sequence returns Ok(0), makes no call on
\* the sink and leaves the sink's contents as they were, whatever was
\* written before.
C9_EmptyWriteTouchesNothing ==
    (last.op = "write" /\ last.buf = <<>>) =>
        /\ last.ret = Ok(0)
        /\ calls = <<>>
        /\ inner = last.before

C9_Witness ==
    /\ last.op = "write"
    /\ last.buf = <<>>
    /\ last.before # <<>>
    /\ sinkKind = "Generic"

\* C10 (as claimed): rot13_character(c, L) with L one of 'a', 'A' returns c
\* when c is outside [L, L+25], and otherwise ((c - L + 13) mod 26) + L,
\* which lies in [L, L+25] and is not c.
C10_RotationPrimitive ==
    rotated # <<>> =>
        LET c == character
            L == lower_bound_inclusive
            r == rotated[1]
        IN  IF c < L \/ c > L + 25
            THEN r = c
            ELSE /\ r = ((c - L + 13) % 26) + L
                 /\ r >= L /\ r <= L + 25
                 /\ r # c

\* The steps of one evaluation, in the order the pipeline is to take them.
PipelineOrder == <<"write_all", "flush", "extract", "clock", "append", "hash">>

IsPrefix(a, b) == Len(a) <= Len(b) /\ a = SubSeq(b, 1, Len(a))

\* Reading a byte sequence as a decimal number.
RECURSIVE DecimalValue(_)
DecimalValue(ds) ==
    IF ds = <<>> THEN 0
    ELSE DecimalValue(SubSeq(ds, 1, Len(ds) - 1)) * 10 + (ds[Len(ds)] - 48)

\* ds is the natural decimal text of the non-negative integer n: digits
\* only, no sign, no separator, no leading zero, and it reads as n.
IsNaturalDecimalOf(ds, n) ==
    /\ Len(ds) >= 1
    /\ \A i \in 1..Len(ds) : ds[i] >= 48 /\ ds[i] <= 57
    /\ Len(ds) > 1 => ds[1] # 48
    /\ DecimalValue(ds) = n

\* C3: the steps of an evaluation happen in the order write all, flush,
\* extract, read clock, append, hash; the buffer that is hashed is the ROT13
\* of the instructions followed at once by the decimal digits of
\* time_window (no separator, no leading zero, no sign when it is not
\* negative) and nothing else, and the secret is the hash of that buffer.
C3_HashedBufferIsDecodedThenWindow ==
    /\ IsPrefix(steps, PipelineOrder)
    /\ pc = "done" =>
          LET n    == Len(instructions)
              text == SubSeq(decoded_string, 1, n)
              rest == SubSeq(decoded_string, n + 1, Len(decoded_string))
          IN  /\ steps = PipelineOrder
              /\ Len(decoded_string) > n
              /\ text = Rot13OfSeq(instructions)
              /\ most_recent_30_seconds >= 0 =>
                    IsNaturalDecimalOf(rest, most_recent_30_seconds)
              /\ most_recent_30_seconds < 0 =>
                    /\ rest[1] = 45
                    /\ IsNaturalDecimalOf(Tail(rest), -most_recent_30_seconds)
              /\ secret = blake3_hash(decoded_string)

C3_Witness ==
    /\ pc = "done"
    /\ steps = PipelineOrder
    /\ Len(instructions) > ChunkSize
    /\ most_recent_30_seconds = 2 * Quantum
    /\ decoded_string = Rot13OfSeq(instructions) \o <<54, 48>>

\* C4: for a timestamp t >= 0 the time window t - (t mod 30) is a multiple
\* of 30 and the latest 30-second boundary at or before t:
\* time_window <= t < time_window + 30.
C4_WindowIsLatestBoundary ==
    (pc \in {"append", "hash", "done"} /\ current_time >= 0) =>
        /\ most_recent_30_seconds % 30 = 0
        /\ most_recent_30_seconds <= current_time
        /\ current_time < most_recent_30_seconds + 30

C4_Witness ==
    /\ pc = "append"
    /\ current_time = 59
    /\ most_recent_30_seconds = 30

\* The two evaluations are finished, took the same instructions and read
\* the clock at t1 and t2, both not negative.
TwoRuns ==
    /\ pc = "done"
    /\ earlier.done
    /\ earlier.instructions = instructions
    /\ earlier.current_time >= 0
    /\ current_time >= 0

\* C5: two evaluations of the same instructions at timestamps t1, t2 >= 0
\* of the same 30-second bucket hash identical buffers and give identical
\* digests.
C5_SameBucketSameDigest ==
    (TwoRuns /\ earlier.current_time \div 30 = current_time \div 30) =>
        /\ earlier.hashed = decoded_string
        /\ earlier.secret = secret

C5_Witness ==
    /\ TwoRuns
    /\ earlier.current_time = 31
    /\ current_time = 59
    /\ Len(instructions) > ChunkSize
    /\ earlier.secret = secret

\* C6: two evaluations of the same instructions at non-negative timestamps
\* of adjacent 30-second buckets hash two different buffers (each digest
\* being the hash of its buffer, the digests differ unless the hash
\* collides on the two).
C6_AdjacentBucketsDifferentBuffers ==
    (TwoRuns /\ (\/ earlier.current_time \div 30 = (current_time \div 30) + 1
                 \/ current_time \div 30 = (earlier.current_time \div 30) + 1)) =>
        /\ earlier.hashed # decoded_string
        /\ secret = blake3_hash(decoded_string)
        /\ earlier.secret = blake3_hash(earlier.hashed)

C6_Witness ==
    /\ TwoRuns
    /\ earlier.current_time = 29
    /\ current_time = 30
    /\ earlier.hashed # decoded_string
    /\ earlier.secret # secret

====
